---- MODULE Spec2Model ----
(***************************************************************************)
(* Model of pkg/testsuite/utils.go: the MessageBuilder of the test suite   *)
(* (fluent setters, BuildIndexation, Build) and the Message it returns     *)
(* (Store, BookOnWallets, GeneratedUTXO, StoredMessageID).                 *)
(*                                                                         *)
(* One MessageBuilder is created by NewMessageBuilder (Init) and reused;   *)
(* every Message keeps a pointer to it, so the wallets BookOnWallets       *)
(* writes to are the builder's wallets at the time of booking.             *)
(*                                                                         *)
(* A failed require.* ends the test goroutine: failed records which one,   *)
(* and no operation runs after it.                                         *)
(***************************************************************************)
EXTENDS Integers, Sequences, FiniteSets, TLC

\* ------------------------------------------------------------ bounds
MaxAmount == 2      \* largest amount passed to Amount()
MaxMsgs == 1        \* number of messages built in one test (Spec)
MaxBuilds == 2      \* number of Build / BookOnWallets rounds (SpecHarness)

\* consumedAmount is a uint64; the modulus is scaled to the model's amounts
\* (every running sum stays below 2 * MaxAmount + 2, as for token amounts
\* and 2^64 in the program).
UInt64Mod == 4 * (MaxAmount + 1)

\* ------------------------------------------------------------ values
WalletNames == {"A", "B"}
NilWallet == "nil"

\* A nil pointer / nil slice is the empty sequence, a set one is <<v>>.
Nil == <<>>
Some(v) == <<v>>

\* HDWallet.Address(): one address per wallet.
Address(w) == [ed25519 |-> w]

\* The all-zero UTXO input ID and null message ID of a fake input.
NullOutputID == [tx |-> [ins |-> <<>>, outs |-> <<>>, tag |-> ""], idx |-> 0]

\* The outputs booked on the genesis wallet before the test's first step.
GenesisOutput(n, amt) ==
    [id |-> [tx |-> [ins |-> <<>>, outs |-> <<>>, tag |-> "genesis"], idx |-> n],
     addr |-> Address("A"), amount |-> amt, type |-> "SingleOutput"]

ParentsValues == {"nil", "ok", "hasNil"}

VARIABLES
    builder,    \* the MessageBuilder's fields
    messages,   \* the Message objects returned so far, in order of creation
    wallets,    \* wallet name -> its outputs, in iteration order
    store,      \* the messages handed to te.StoreMessage, in order
    failed,     \* the operation whose require (or panic) ended the test, and why
    ret         \* what the last call returned, when it was an accessor

vars == <<builder, messages, wallets, store, failed, ret>>

NoRet == [op |-> "none", output |-> Nil, id |-> Nil]

NotFailed == [op |-> "none", why |-> "none"]

RECURSIVE SumAmounts(_)
SumAmounts(outs) ==
    IF outs = <<>> THEN 0 ELSE outs[1].amount + SumAmounts(Tail(outs))

Range(s) == {s[i] : i \in 1..Len(s)}

\* ------------------------------------------------------------ wallet
\* HDWallet.Outputs()
Outputs(w) == wallets[w]

\* HDWallet.BookSpents(outputs): removal by output ID, a no-op for an output
\* the wallet does not hold.
BookSpents(ws, w, spent) ==
    [ws EXCEPT ![w] = SelectSeq(@, LAMBDA o : \A i \in 1..Len(spent) : spent[i].id # o.id)]

\* HDWallet.BookOutput(output): nothing for nil; the set is keyed by output ID.
BookOutput(ws, w, output) ==
    IF output = Nil THEN ws
    ELSE IF \E i \in 1..Len(ws[w]) : ws[w][i].id = output[1].id THEN ws
    ELSE [ws EXCEPT ![w] = Append(@, output[1])]

\* ------------------------------------------------------------ store
\* storage.Message.GetMessageID(): the hash of the message's content.
GetMessageID(message) == [hash |-> message]

\* te.StoreMessage(message)
StoreMessage(st, message) == Append(st, message)

\* ------------------------------------------------------------ Init
\* NewMessageBuilder(indexation): every other field has its zero value.
NewMessageBuilder(indexation) ==
    [indexation |-> indexation, parents |-> "nil",
     fromWallet |-> NilWallet, toWallet |-> NilWallet, amount |-> 0,
     fakeInputs |-> FALSE, outputToUse |-> Nil]

Init ==
    /\ \E indexation \in {"", "tag"} : builder = NewMessageBuilder(indexation)
    /\ messages = <<>>
    /\ wallets = [w \in WalletNames |->
                    IF w = "A" THEN <<GenesisOutput(0, 1), GenesisOutput(1, 2)>> ELSE <<>>]
    /\ store = <<>>
    /\ failed = NotFailed
    /\ ret = NoRet

Running == failed = NotFailed

\* A failed require: the test goroutine ends, nothing else changes.
Fail(op, why) ==
    /\ failed' = [op |-> op, why |-> why]
    /\ UNCHANGED <<builder, messages, wallets, store, ret>>

\* ------------------------------------------------------------ setters
SetField(b) ==
    /\ builder' = b
    /\ ret' = NoRet
    /\ UNCHANGED <<messages, wallets, store, failed>>

Parents(parents) == Running /\ SetField([builder EXCEPT !.parents = parents])

FromWallet(wallet) == Running /\ SetField([builder EXCEPT !.fromWallet = wallet])

ToWallet(wallet) == Running /\ SetField([builder EXCEPT !.toWallet = wallet])

Amount(amount) == Running /\ SetField([builder EXCEPT !.amount = amount])

FakeInputs == Running /\ SetField([builder EXCEPT !.fakeInputs = TRUE])

UsingOutput(output) == Running /\ SetField([builder EXCEPT !.outputToUse = output])

\* An output made with utxo.CreateOutput that no wallet holds.
ForeignOutput ==
    [id |-> [tx |-> [ins |-> <<>>, outs |-> <<>>, tag |-> "foreign"], idx |-> 0],
     addr |-> Address("B"), amount |-> 1, type |-> "SingleOutput"]

\* The outputs a test hands to UsingOutput: nil, an output no wallet holds,
\* an output of a wallet, or the GeneratedUTXO of a message.
UsableOutputs ==
    {Nil, Some(ForeignOutput)}
    \cup {Some(o) : o \in UNION {Range(wallets[w]) : w \in WalletNames}}
    \cup {messages[m].sentOutput : m \in 1..Len(messages)}

\* ------------------------------------------------------------ BuildIndexation
\* What Build and BuildIndexation record besides the Message's own fields:
\* the builder's configuration when the message was built.  No operation
\* reads h.
History(kind, source) ==
    [kind |-> kind, from |-> builder.fromWallet, to |-> builder.toWallet,
     target |-> builder.amount, source |-> source]

\* Mutant: BuildIndexation without the require.NotNil on each parent.
BuildIndexationErrorNoParentCheck(codecErr) ==
    IF builder.indexation = "" THEN "indexation"
    ELSE IF builder.parents = "nil" THEN "parents"
    ELSE IF codecErr THEN "codec"
    ELSE "none"

\* The requires of BuildIndexation, in order; codecErr is the outcome of the
\* message builder, the proof of work and the validation.
BuildIndexationError(codecErr) ==
    IF builder.indexation = "" THEN "indexation"
    ELSE IF builder.parents = "nil" THEN "parents"
    ELSE IF builder.parents = "hasNil" THEN "parent"
    ELSE IF codecErr THEN "codec"
    ELSE "none"

IndexationMessage ==
    [message |-> [payload |-> [ins |-> <<>>, outs |-> <<>>, tag |-> builder.indexation]],
     consumedOutputs |-> <<>>, sentOutput |-> Nil, remainderOutput |-> Nil,
     booked |-> FALSE, storedMessageID |-> Nil,
     h |-> History("indexation", "none")]

BuildIndexation ==
    /\ Running
    /\ \E codecErr \in BOOLEAN :
         IF BuildIndexationError(codecErr) # "none"
         THEN Fail("BuildIndexation", BuildIndexationError(codecErr))
         ELSE /\ messages' = Append(messages, IndexationMessage)
              /\ ret' = NoRet
              /\ UNCHANGED <<builder, wallets, store, failed>>

\* ------------------------------------------------------------ Build
\* Mutant: the fake input takes priority over the output override.
FakeBeforeOverride ==
    IF builder.fakeInputs THEN "fake"
    ELSE IF builder.outputToUse # Nil THEN "override"
    ELSE "wallet"

\* Which of the three candidate sources Build uses.
CandidateSource ==
    IF builder.outputToUse # Nil THEN "override"
    ELSE IF builder.fakeInputs THEN "fake"
    ELSE "wallet"

\* Mutant: the fake output is created with a fixed amount of 1.
FakeOutputOfOne ==
    [id |-> NullOutputID, addr |-> Address(builder.fromWallet),
     amount |-> 1, type |-> "SingleOutput"]

\* utxo.CreateOutput(&iotago.UTXOInputID{}, hornet.GetNullMessageID(), ..., fromAddr, b.amount)
FakeOutput ==
    [id |-> NullOutputID, addr |-> Address(builder.fromWallet),
     amount |-> builder.amount, type |-> "SingleOutput"]

\* outputsThatCanBeConsumed
Candidates ==
    IF CandidateSource = "override" THEN <<builder.outputToUse[1]>>
    ELSE IF CandidateSource = "fake" THEN <<FakeOutput>>
    ELSE Outputs(builder.fromWallet)

\* The loop over outputsThatCanBeConsumed, from candidate i on, with the
\* inputs and the amount consumed so far.
RECURSIVE ConsumeFrom(_, _, _, _)
ConsumeFrom(cands, i, consumedInputs, consumedAmount) ==
    IF i > Len(cands)
    THEN [inputs |-> consumedInputs, amount |-> consumedAmount]
    ELSE LET inputs == Append(consumedInputs, cands[i])
             amount == (consumedAmount + cands[i].amount) % UInt64Mod
         IN  IF amount >= builder.amount
             THEN [inputs |-> inputs, amount |-> amount]
             ELSE ConsumeFrom(cands, i + 1, inputs, amount)

Consumed == ConsumeFrom(Candidates, 1, <<>>, 0)

\* Mutant: the remainder is the whole consumed amount.
RemainderIsConsumed(consumedAmount) ==
    IF builder.amount < consumedAmount THEN consumedAmount ELSE 0

\* remainderAmount
RemainderAmount(consumedAmount) ==
    IF builder.amount < consumedAmount THEN consumedAmount - builder.amount ELSE 0

\* Mutant: the remainder output is added when b.amount <= consumedAmount.
AddedOutputsOnEqual(consumedAmount) ==
    <<[addr |-> Address(builder.toWallet), amount |-> builder.amount,
       type |-> "SingleOutput"]>>
    \o (IF builder.amount <= consumedAmount
        THEN <<[addr |-> Address(builder.fromWallet),
                amount |-> consumedAmount - builder.amount, type |-> "SingleOutput"]>>
        ELSE <<>>)

\* The outputs added to the transaction builder, in the order added.
AddedOutputs(consumedAmount) ==
    <<[addr |-> Address(builder.toWallet), amount |-> builder.amount,
       type |-> "SingleOutput"]>>
    \o (IF builder.amount < consumedAmount
        THEN <<[addr |-> Address(builder.fromWallet),
                amount |-> RemainderAmount(consumedAmount), type |-> "SingleOutput"]>>
        ELSE <<>>)

\* builder.Build(signer): the transaction; the library orders the outputs of
\* the essence, so either order of two outputs can come back.
Transaction(inputs, outs, swap) ==
    [ins |-> [i \in 1..Len(inputs) |-> inputs[i].id],
     outs |-> IF swap /\ Len(outs) = 2 THEN <<outs[2], outs[1]>> ELSE outs,
     tag |-> builder.indexation]

\* utxo.NewOutput(messageID, messageTx, i): output i (from 1) of the transaction.
NewOutput(tx, i) ==
    [id |-> [tx |-> tx, idx |-> i - 1], addr |-> tx.outs[i].addr,
     amount |-> tx.outs[i].amount, type |-> tx.outs[i].type]

\* The loop over txEssence.Outputs from output i on; acc holds sentOutput
\* and remainderOutput as assigned so far.
RECURSIVE Classify(_, _, _, _)
Classify(tx, i, remainderAmount, acc) ==
    IF i > Len(tx.outs) THEN acc
    ELSE LET output == NewOutput(tx, i) IN
         IF output.addr = Address(builder.toWallet) /\ output.amount = builder.amount
         THEN Classify(tx, i + 1, remainderAmount, [acc EXCEPT !.sentOutput = Some(output)])
         ELSE IF /\ remainderAmount > 0
                 /\ output.addr = Address(builder.fromWallet)
                 /\ output.amount = remainderAmount
         THEN Classify(tx, i + 1, remainderAmount, [acc EXCEPT !.remainderOutput = Some(output)])
         ELSE Classify(tx, i + 1, remainderAmount, acc)

\* The requires (and the nil dereference of an unset wallet) of Build, in
\* order; codecErr is the outcome of signing, the message builder, the proof
\* of work and the validation.
BuildError(codecErr) ==
    IF ~(builder.amount > 0) THEN "amount"
    ELSE IF builder.fromWallet = NilWallet \/ builder.toWallet = NilWallet THEN "wallet"
    ELSE IF Candidates = <<>> THEN "outputs"
    ELSE IF builder.indexation = "" THEN "indexation"
    ELSE IF codecErr THEN "codec"
    ELSE IF builder.parents = "nil" THEN "parents"
    ELSE "none"

\* The Message Build returns.
BuildMessage(swap) ==
    LET tx == Transaction(Consumed.inputs, AddedOutputs(Consumed.amount), swap)
        cl == Classify(tx, 1, RemainderAmount(Consumed.amount),
                       [sentOutput |-> Nil, remainderOutput |-> Nil])
    IN  [message |-> [payload |-> tx],
         consumedOutputs |-> Consumed.inputs,
         sentOutput |-> cl.sentOutput, remainderOutput |-> cl.remainderOutput,
         booked |-> FALSE, storedMessageID |-> Nil,
         h |-> History("transaction", CandidateSource)]

\* Mutant: Build books the sent output itself.
WalletsBookedByBuild(msg) == BookOutput(wallets, builder.toWallet, msg.sentOutput)

\* The wallets when Build returns: Build reads the source wallet only.
WalletsAfterBuild(msg) == wallets

Build ==
    /\ Running
    /\ \E codecErr \in BOOLEAN, swap \in BOOLEAN :
         IF BuildError(codecErr) # "none"
         THEN Fail("Build", BuildError(codecErr))
         ELSE /\ messages' = Append(messages, BuildMessage(swap))
              /\ wallets' = WalletsAfterBuild(BuildMessage(swap))
              /\ ret' = NoRet
              /\ UNCHANGED <<builder, store, failed>>

\* ------------------------------------------------------------ Message
\* Mutant: Store without its require.
StoreAlwaysAllowed(m) == TRUE

\* Mutant: Store also requires that the message is not booked yet.
StoreOnlyUnbooked(m) == messages[m].storedMessageID = Nil /\ ~messages[m].booked

\* require.Nil(storedMessageID)
StoreAllowed(m) == messages[m].storedMessageID = Nil

Store(m) ==
    /\ Running
    /\ IF ~StoreAllowed(m)
       THEN Fail("Store", "stored")
       ELSE /\ store' = StoreMessage(store, messages[m].message)
            /\ messages' = [messages EXCEPT
                 ![m].storedMessageID = Some(GetMessageID(messages[m].message))]
            /\ ret' = NoRet
            /\ UNCHANGED <<builder, wallets, failed>>

\* Mutant: BookOnWallets without its require.
BookAlwaysAllowed(m) == TRUE

\* require.False(m.booked)
BookAllowed(m) == ~messages[m].booked

\* Mutant: the sent output is booked on the source wallet and the remainder
\* on the destination wallet.
BookedWalletsSwapped(m) ==
    LET spent == BookSpents(wallets, builder.fromWallet, messages[m].consumedOutputs)
        sent == BookOutput(spent, builder.fromWallet, messages[m].sentOutput)
    IN  BookOutput(sent, builder.toWallet, messages[m].remainderOutput)

\* Mutant: BookOnWallets without BookSpents.
BookedWalletsNoSpend(m) ==
    LET sent == BookOutput(wallets, builder.toWallet, messages[m].sentOutput)
    IN  BookOutput(sent, builder.fromWallet, messages[m].remainderOutput)

\* The three wallet calls of BookOnWallets, on the builder's wallets.
BookedWallets(m) ==
    LET spent == BookSpents(wallets, builder.fromWallet, messages[m].consumedOutputs)
        sent == BookOutput(spent, builder.toWallet, messages[m].sentOutput)
    IN  BookOutput(sent, builder.fromWallet, messages[m].remainderOutput)

Booked(m) ==
    /\ messages' = [messages EXCEPT ![m].booked = TRUE]
    /\ ret' = NoRet
    /\ UNCHANGED <<builder, store, failed>>

BookOnWallets(m) ==
    /\ Running
    /\ IF ~BookAllowed(m)
       THEN Fail("BookOnWallets", "booked")
       ELSE IF builder.fromWallet = NilWallet \/ builder.toWallet = NilWallet
       THEN \* a method call on a nil *HDWallet with nothing to book: the
            \* wallet's code decides whether it dereferences the pointer
            \/ Fail("BookOnWallets", "wallet")
            \/ Booked(m) /\ wallets' = wallets
       ELSE Booked(m) /\ wallets' = BookedWallets(m)

\* require.NotNil(m.sentOutput) fails
NoSentOutput(m) == messages[m].sentOutput = Nil

\* Mutant: StoredMessageID without its require.
NeverNoStoredMessageID(m) == FALSE

\* require.NotNil(m.storedMessageID) fails
NoStoredMessageID(m) == messages[m].storedMessageID = Nil

GeneratedUTXO(m) ==
    /\ Running
    /\ IF NoSentOutput(m)
       THEN Fail("GeneratedUTXO", "nil")
       ELSE /\ ret' = [op |-> "GeneratedUTXO", output |-> messages[m].sentOutput, id |-> Nil]
            /\ UNCHANGED <<builder, messages, wallets, store, failed>>

StoredMessageID(m) ==
    /\ Running
    /\ IF NoStoredMessageID(m)
       THEN Fail("StoredMessageID", "nil")
       ELSE /\ ret' = [op |-> "StoredMessageID", output |-> Nil,
                       id |-> messages[m].storedMessageID]
            /\ UNCHANGED <<builder, messages, wallets, store, failed>>

\* ------------------------------------------------------------ Next
\* One test with one builder, which builds at most MaxMsgs messages.
\* parents, amount, fakeInputs and outputToUse are read by the builds only:
\* the test sets them while a build can follow.
CanBuild == Len(messages) < MaxMsgs

Configuring == CanBuild

Next ==
    \/ Configuring /\ \E parents \in ParentsValues : Parents(parents)
    \/ \E wallet \in WalletNames : FromWallet(wallet)
    \/ \E wallet \in WalletNames : ToWallet(wallet)
    \/ Configuring /\ \E amount \in 0..MaxAmount : Amount(amount)
    \/ Configuring /\ FakeInputs
    \/ Configuring /\ \E output \in UsableOutputs : UsingOutput(output)
    \/ CanBuild /\ BuildIndexation
    \/ CanBuild /\ Build
    \/ \E m \in 1..Len(messages) : Store(m)
    \/ \E m \in 1..Len(messages) : BookOnWallets(m)
    \/ \E m \in 1..Len(messages) : GeneratedUTXO(m)
    \/ \E m \in 1..Len(messages) : StoredMessageID(m)

Spec == Init /\ [][Next]_vars

\* ------------------------------------------------------------ SpecHarness
\* The harness accounting of the tests: one source wallet, no output
\* override and no fake inputs, and every message is booked before the next
\* one is built.  The builder starts as
\*   NewMessageBuilder("tag").Parents(ok).FromWallet(A).ToWallet(B).
HarnessInit ==
    /\ builder = [NewMessageBuilder("tag") EXCEPT
                    !.parents = "ok", !.fromWallet = "A", !.toWallet = "B"]
    /\ messages = <<>>
    /\ wallets = [w \in WalletNames |->
                    IF w = "A" THEN <<GenesisOutput(0, 1), GenesisOutput(1, 2)>> ELSE <<>>]
    /\ store = <<>>
    /\ failed = NotFailed
    /\ ret = NoRet

AllBooked == \A m \in 1..Len(messages) : messages[m].booked

HarnessNext ==
    \/ \E wallet \in WalletNames : ToWallet(wallet)
    \/ \E amount \in 0..MaxAmount : Amount(amount)
    \/ Len(messages) < MaxBuilds /\ AllBooked /\ Build
    \/ \E m \in 1..Len(messages) : ~messages[m].booked /\ BookOnWallets(m)

SpecHarness == HarnessInit /\ [][HarnessNext]_vars

\* ============================================================ claims
IsTransaction(m) == messages[m].h.kind = "transaction"

ConsumedSum(m) == SumAmounts(messages[m].consumedOutputs)

WalletsSet == builder.fromWallet \in WalletNames /\ builder.toWallet \in WalletNames

\* Build has returned a message in this step.
BuildReturns == Build /\ Len(messages') = Len(messages) + 1

\* The amounts held by the two wallets together.
TotalAmount == SumAmounts(wallets["A"]) + SumAmounts(wallets["B"])

\* A message as Build or BuildIndexation returns it.
Fresh(m) == messages[m].storedMessageID = Nil /\ ~messages[m].booked

\* ------------------------------------------------------------ C1
\* C1: every message Build returns consumes inputs whose amounts sum to at
\* least the target amount (a Build that cannot cover the target returns no
\* message).
C1_ConsumedCoversTarget ==
    \A m \in 1..Len(messages) :
        IsTransaction(m) => ConsumedSum(m) >= messages[m].h.target

\* ------------------------------------------------------------ C2
\* C2: booked never goes back to false; BookOnWallets on a booked message
\* fails fatally and changes no wallet and no message; BookOnWallets on an
\* unbooked message (the builder's wallets set) sets booked and does not fail.
C2_BookOnWalletsOneShot ==
    [][\A m \in 1..Len(messages) :
          /\ messages[m].booked => messages'[m].booked
          /\ (BookOnWallets(m) /\ messages[m].booked)
               => /\ failed' = [op |-> "BookOnWallets", why |-> "booked"]
                  /\ wallets' = wallets
                  /\ messages' = messages
          /\ (BookOnWallets(m) /\ ~messages[m].booked /\ WalletsSet)
               => /\ messages'[m].booked
                  /\ failed' = NotFailed]_vars

C2_Witness ==
    /\ failed = [op |-> "BookOnWallets", why |-> "booked"]
    /\ \E m \in 1..Len(messages) : messages[m].booked /\ IsTransaction(m)

C4_NoPartialSpend ==
    [][\A m \in 1..Len(messages) :
          (/\ BookOnWallets(m)
           /\ ~messages[m].booked
           /\ WalletsSet
           /\ \E i \in 1..Len(messages[m].consumedOutputs) :
                messages[m].consumedOutputs[i] \notin Range(wallets[builder.fromWallet]))
            => /\ failed' # NotFailed
               /\ wallets' = wallets]_vars

\* ------------------------------------------------------------ C5
\* C5: Store on a message not yet stored appends the message to the message
\* store once and records its identifier; Store on a stored message fails
\* fatally and changes neither the message store nor any message; a recorded
\* identifier never changes.
C5_StoreOneShot ==
    [][\A m \in 1..Len(messages) :
          /\ (Store(m) /\ messages[m].storedMessageID = Nil)
               => /\ store' = Append(store, messages[m].message)
                  /\ messages'[m].storedMessageID = Some(GetMessageID(messages[m].message))
                  /\ failed' = NotFailed
          /\ (Store(m) /\ messages[m].storedMessageID # Nil)
               => /\ failed' = [op |-> "Store", why |-> "stored"]
                  /\ store' = store
                  /\ messages' = messages
          /\ messages[m].storedMessageID # Nil
               => messages'[m].storedMessageID = messages[m].storedMessageID]_vars

C5_Witness ==
    /\ failed = [op |-> "Store", why |-> "stored"]
    /\ Len(store) = 1

C7_BuildThenBook ==
    [][\A m \in 1..Len(messages) :
          LET src == messages[m].h.from
              dst == messages[m].h.to
              T == messages[m].h.target
              consumed == Range(messages[m].consumedOutputs)
          IN  (/\ BookOnWallets(m)
               /\ ~messages[m].booked
               /\ IsTransaction(m)
               /\ messages[m].h.source = "wallet"
               /\ src # dst
               /\ builder.fromWallet = src
               /\ builder.toWallet = dst
               /\ ConsumedSum(m) >= T)
                => /\ failed' = NotFailed
                   /\ IF ConsumedSum(m) > T
                      THEN \E r \in Range(wallets'[src]) :
                             /\ r.addr = Address(src)
                             /\ r.amount = ConsumedSum(m) - T
                             /\ Range(wallets'[src])
                                  = (Range(wallets[src]) \ consumed) \cup {r}
                      ELSE Range(wallets'[src]) = Range(wallets[src]) \ consumed
                   /\ \E o \in Range(wallets'[dst]) :
                        /\ o.addr = Address(dst)
                        /\ o.amount = T
                        /\ Range(wallets'[dst]) = Range(wallets[dst]) \cup {o}]_vars

\* One output of 2 consumed for a target of 1: the source wallet holds the
\* remainder of 1 in its place, the destination wallet the sent output.
C7_Witness ==
    \E m \in 1..Len(messages) :
        /\ messages[m].booked
        /\ messages[m].h.from = "A"
        /\ messages[m].h.to = "B"
        /\ messages[m].h.target = 1
        /\ Len(messages[m].consumedOutputs) = 1
        /\ messages[m].consumedOutputs[1].amount = 2
        /\ messages[m].remainderOutput # Nil
        /\ Range(wallets["A"]) = {messages[m].remainderOutput[1]}
        /\ messages[m].sentOutput[1] \in Range(wallets["B"])

\* ------------------------------------------------------------ C8
\* C8: in every message Build returns, the transaction declares a remainder
\* output exactly when the consumed sum exceeds the target; a recorded
\* remainder output has the amount consumed sum - target and the source
\* address; when the consumed sum equals the target no remainder output is
\* recorded.
C8_Remainder ==
    \A m \in 1..Len(messages) :
        IsTransaction(m) =>
            LET T == messages[m].h.target
                outs == messages[m].message.payload.outs
                rem == messages[m].remainderOutput
            IN  /\ (Len(outs) = 2) <=> (ConsumedSum(m) > T)
                /\ Len(outs) \in {1, 2}
                /\ rem # Nil
                     => /\ rem[1].amount = ConsumedSum(m) - T
                        /\ ConsumedSum(m) = T + rem[1].amount
                        /\ rem[1].addr = Address(messages[m].h.from)
                /\ ConsumedSum(m) = T => rem = Nil

C8_Witness ==
    \E m \in 1..Len(messages) :
        /\ IsTransaction(m)
        /\ messages[m].remainderOutput # Nil
        /\ Len(messages[m].consumedOutputs) = 2

\* ------------------------------------------------------------ C9
\* C9: StoredMessageID fails fatally on a message without a recorded
\* identifier and otherwise returns the recorded identifier, which is the
\* identifier of the message Store put into the message store; GeneratedUTXO
\* fails fatally on a message without a sent output, so on every message of
\* BuildIndexation, and otherwise returns the sent output.
C9_Accessors ==
    [][\A m \in 1..Len(messages) :
          /\ StoredMessageID(m) =>
               IF messages[m].storedMessageID = Nil
               THEN failed' = [op |-> "StoredMessageID", why |-> "nil"] /\ ret' = ret
               ELSE /\ failed' = NotFailed
                    /\ ret'.op = "StoredMessageID"
                    /\ ret'.id = messages[m].storedMessageID
                    /\ \E k \in 1..Len(store) : ret'.id = Some(GetMessageID(store[k]))
          /\ GeneratedUTXO(m) =>
               IF messages[m].sentOutput = Nil \/ ~IsTransaction(m)
               THEN failed' = [op |-> "GeneratedUTXO", why |-> "nil"] /\ ret' = ret
               ELSE /\ failed' = NotFailed
                    /\ ret'.op = "GeneratedUTXO"
                    /\ ret'.output = messages[m].sentOutput]_vars

C9_Witness ==
    /\ failed = [op |-> "GeneratedUTXO", why |-> "nil"]
    /\ \E m \in 1..Len(messages) : ~IsTransaction(m) /\ messages[m].storedMessageID # Nil

\* ------------------------------------------------------------ C10
\* C10: under the harness accounting (SpecHarness) no output is a consumed
\* input of two different messages.
C10_NoDoubleSpend ==
    \A m1, m2 \in 1..Len(messages) :
        m1 < m2 =>
            \A i \in 1..Len(messages[m1].consumedOutputs) :
                \A j \in 1..Len(messages[m2].consumedOutputs) :
                    messages[m1].consumedOutputs[i].id # messages[m2].consumedOutputs[j].id

C10_Witness ==
    /\ Len(messages) = 2
    /\ messages[1].booked
    /\ messages[2].booked
    /\ Len(messages[1].consumedOutputs) = 2
    /\ Len(messages[2].consumedOutputs) = 1
    /\ messages[1].h.to = "A"

\* ------------------------------------------------------------ C11
\* C11: BuildIndexation changes no wallet and not the message store; with an
\* empty tag, unset parents or a nil parent it fails fatally and returns no
\* message; with a tag and parents without a nil entry it fails only on an
\* error of the message library or the proof of work, and otherwise returns
\* one message with no transaction inputs or outputs, no consumed inputs, no
\* sent output, no remainder output, not stored and not booked.
C11_BuildIndexation ==
    [][BuildIndexation =>
         /\ wallets' = wallets
         /\ store' = store
         /\ IF builder.indexation = "" \/ builder.parents \in {"nil", "hasNil"}
            THEN /\ failed'.op = "BuildIndexation"
                 /\ failed'.why \in {"indexation", "parents", "parent"}
                 /\ messages' = messages
            ELSE \/ failed' = [op |-> "BuildIndexation", why |-> "codec"]
                      /\ messages' = messages
                 \/ /\ failed' = NotFailed
                    /\ Len(messages') = Len(messages) + 1
                    /\ SubSeq(messages', 1, Len(messages)) = messages
                    /\ LET msg == messages'[Len(messages')]
                       IN  /\ msg.message.payload.ins = <<>>
                           /\ msg.message.payload.outs = <<>>
                           /\ msg.message.payload.tag = builder.indexation
                           /\ msg.consumedOutputs = <<>>
                           /\ msg.sentOutput = Nil
                           /\ msg.remainderOutput = Nil
                           /\ msg.storedMessageID = Nil
                           /\ ~msg.booked]_vars

\* BuildIndexation has returned a message while the builder was configured
\* for a transfer from a wallet that holds outputs.
C11_Witness ==
    \E m \in 1..Len(messages) :
        /\ messages[m].h.kind = "indexation"
        /\ messages[m].h.from = "A"
        /\ messages[m].h.target > 0
        /\ wallets["A"] # <<>>
        /\ failed = NotFailed

\* ------------------------------------------------------------ C12
\* C12: on a message neither stored nor booked, Store succeeds and leaves
\* BookOnWallets allowed with the same effect on the wallets, and
\* BookOnWallets (the builder's wallets set) succeeds, removes the consumed
\* inputs from the source wallet and leaves Store allowed with the same
\* effect on the message store and the same identifier; so both orders end
\* with the same wallets, the same message store, stored and booked.
C12_StoreBookCommute ==
    [][\A m \in 1..Len(messages) :
          /\ (Store(m) /\ Fresh(m))
               => /\ failed' = NotFailed
                  /\ messages'[m].storedMessageID # Nil
                  /\ ~messages'[m].booked
                  /\ wallets' = wallets
                  /\ BookAllowed(m)'
                  /\ BookedWallets(m)' = BookedWallets(m)
          /\ (BookOnWallets(m) /\ Fresh(m) /\ WalletsSet)
               => /\ failed' = NotFailed
                  /\ messages'[m].booked
                  /\ messages'[m].storedMessageID = Nil
                  /\ store' = store
                  /\ \A i \in 1..Len(messages[m].consumedOutputs) :
                       messages[m].consumedOutputs[i] \notin Range(wallets'[builder.fromWallet])
                  /\ StoreAllowed(m)'
                  /\ StoreMessage(store, messages[m].message)'
                       = StoreMessage(store, messages[m].message)
                  /\ GetMessageID(messages[m].message)' = GetMessageID(messages[m].message)
          /\ (Store(m) /\ messages[m].booked /\ messages[m].storedMessageID = Nil)
               => failed' = NotFailed /\ wallets' = wallets /\ messages'[m].booked
          /\ (BookOnWallets(m) /\ ~messages[m].booked /\ messages[m].storedMessageID # Nil
                /\ WalletsSet)
               => /\ failed' = NotFailed
                  /\ store' = store
                  /\ messages'[m].storedMessageID = messages[m].storedMessageID]_vars

\* A message that spent outputs of the source wallet is booked and stored.
C12_Witness ==
    \E m \in 1..Len(messages) :
        /\ IsTransaction(m)
        /\ messages[m].h.source = "wallet"
        /\ messages[m].booked
        /\ messages[m].storedMessageID # Nil
        /\ store = <<messages[m].message>>
        /\ \A i \in 1..Len(messages[m].consumedOutputs) :
             messages[m].consumedOutputs[i] \notin Range(wallets[messages[m].h.from])
        /\ failed = NotFailed

\* ------------------------------------------------------------ C13
\* C13: the consumed inputs of a message Build returns are the shortest
\* prefix of the candidate list whose amounts sum to at least the target
\* amount: a prefix of the candidates in their order, its sum at least the
\* target, and the sum of every shorter prefix below the target.
C13_FirstFit ==
    [][BuildReturns =>
         LET c == Candidates
             consumed == messages'[Len(messages')].consumedOutputs
             k == Len(consumed)
         IN  /\ k \in 1..Len(c)
             /\ consumed = SubSeq(c, 1, k)
             /\ SumAmounts(consumed) >= builder.amount
             /\ \A j \in 1..(k - 1) : SumAmounts(SubSeq(c, 1, j)) < builder.amount]_vars

\* ------------------------------------------------------------ C14
\* C14: a message Build returns consumes exactly the output override when
\* one is set; otherwise, with fake inputs, exactly one output with the null
\* output id, the source address and the target amount; otherwise only
\* outputs of the source wallet, in the wallet's order from its first
\* output on.  Build on an empty candidate list fails fatally and returns no
\* message.
C14_CandidatePriority ==
    [][Build =>
         /\ BuildReturns =>
              LET consumed == messages'[Len(messages')].consumedOutputs IN
              IF builder.outputToUse # Nil
              THEN consumed = <<builder.outputToUse[1]>>
              ELSE IF builder.fakeInputs
              THEN consumed = <<[id |-> NullOutputID,
                                 addr |-> Address(builder.fromWallet),
                                 amount |-> builder.amount,
                                 type |-> "SingleOutput"]>>
              ELSE /\ consumed # <<>>
                   /\ Len(consumed) <= Len(wallets[builder.fromWallet])
                   /\ consumed = SubSeq(wallets[builder.fromWallet], 1, Len(consumed))
         /\ (/\ builder.outputToUse = Nil
             /\ ~builder.fakeInputs
             /\ builder.fromWallet \in WalletNames
             /\ wallets[builder.fromWallet] = <<>>)
              => failed' # NotFailed /\ messages' = messages]_vars

\* Build used the output override although fake inputs were set and the
\* source wallet held outputs.
C14_Witness ==
    \E m \in 1..Len(messages) :
        /\ IsTransaction(m)
        /\ messages[m].h.source = "override"
        /\ builder.fakeInputs
        /\ builder.outputToUse = Some(ForeignOutput)
        /\ messages[m].h.from = "A"
        /\ wallets["A"] # <<>>
        /\ messages[m].consumedOutputs = <<ForeignOutput>>

\* ------------------------------------------------------------ C15
\* C15: with fake inputs and no output override, Build of a positive amount T
\* (wallets, tag and parents set) fails only on an error of the libraries,
\* whatever the source wallet holds, and otherwise returns a message that
\* consumes one input with the null output id and amount T and has no
\* remainder; BookOnWallets on such a message does not fail, keeps every
\* output of the source wallet (leaves it unchanged when the destination is
\* another wallet) and adds the sent output of amount T to the destination
\* wallet.
C15_FakeInputs ==
    [][/\ (/\ Build
           /\ builder.outputToUse = Nil
           /\ builder.fakeInputs
           /\ builder.amount > 0
           /\ WalletsSet
           /\ builder.indexation # ""
           /\ builder.parents # "nil")
            => \/ failed' = [op |-> "Build", why |-> "codec"] /\ messages' = messages
               \/ /\ failed' = NotFailed
                  /\ BuildReturns
                  /\ LET msg == messages'[Len(messages')]
                     IN  /\ Len(msg.consumedOutputs) = 1
                         /\ msg.consumedOutputs[1].id = NullOutputID
                         /\ msg.consumedOutputs[1].amount = builder.amount
                         /\ Len(msg.message.payload.outs) = 1
                         /\ msg.remainderOutput = Nil
                         /\ msg.sentOutput # Nil
                         /\ msg.sentOutput[1].amount = builder.amount
       /\ \A m \in 1..Len(messages) :
            (/\ BookOnWallets(m)
             /\ ~messages[m].booked
             /\ IsTransaction(m)
             /\ messages[m].h.source = "fake"
             /\ WalletsSet)
              => LET src == builder.fromWallet
                     dst == builder.toWallet
                     sent == messages[m].sentOutput[1]
                 IN  /\ failed' = NotFailed
                     /\ Range(wallets[src]) \subseteq Range(wallets'[src])
                     /\ src # dst => wallets'[src] = wallets[src]
                     /\ sent.amount = messages[m].h.target
                     /\ Range(wallets'[dst]) = Range(wallets[dst]) \cup {sent}]_vars

\* A fake-input message built on the empty wallet B is booked: B is still
\* empty and A holds the sent output next to its two outputs.
C15_Witness ==
    \E m \in 1..Len(messages) :
        /\ IsTransaction(m)
        /\ messages[m].h.source = "fake"
        /\ messages[m].h.from = "B"
        /\ messages[m].h.to = "A"
        /\ messages[m].booked
        /\ builder.fromWallet = "B"
        /\ wallets["B"] = <<>>
        /\ Len(wallets["A"]) = 3
        /\ messages[m].sentOutput[1] \in Range(wallets["A"])

\* ------------------------------------------------------------ C16
\* C16: the sent output of a message Build returns is the first output of
\* the transaction, in transaction output order, that has the destination
\* address and the target amount (also when more than one output has them).
C16_FirstMatch ==
    \A m \in 1..Len(messages) :
        IsTransaction(m) =>
            LET outs == messages[m].message.payload.outs
                matching == {i \in 1..Len(outs) :
                               /\ outs[i].addr = Address(messages[m].h.to)
                               /\ outs[i].amount = messages[m].h.target}
            IN  matching # {} =>
                  /\ messages[m].sentOutput # Nil
                  /\ \A i \in matching : messages[m].sentOutput[1].id.idx + 1 <= i

\* ------------------------------------------------------------ C17
\* C17: BookOnWallets books a message on the wallets it was built with,
\* whatever FromWallet / ToWallet set afterwards: the consumed inputs leave
\* and the remainder enters the source wallet of the Build, the sent output
\* enters the destination wallet of the Build, and a wallet configured since
\* that is neither of them is not changed.
C17_BoundToBuildWallets ==
    [][\A m \in 1..Len(messages) :
          (/\ BookOnWallets(m)
           /\ ~messages[m].booked
           /\ IsTransaction(m)
           /\ WalletsSet)
            => LET src == messages[m].h.from
                   dst == messages[m].h.to
               IN  /\ \A i \in 1..Len(messages[m].consumedOutputs) :
                        messages[m].consumedOutputs[i] \notin Range(wallets'[src])
                   /\ messages[m].remainderOutput # Nil
                        => messages[m].remainderOutput[1] \in Range(wallets'[src])
                   /\ messages[m].sentOutput # Nil
                        => messages[m].sentOutput[1] \in Range(wallets'[dst])
                   /\ \A w \in {builder.fromWallet, builder.toWallet} \ {src, dst} :
                        wallets'[w] = wallets[w]]_vars

\* ------------------------------------------------------------ C18
\* C18: booking a message built from the source wallet's outputs for a
\* destination wallet other than the source leaves the total amount held by
\* the two wallets as it was before the Build (Build changes no wallet, and
\* every message is booked before the next Build).
C18_ValueConserved ==
    [][\A m \in 1..Len(messages) :
          (/\ BookOnWallets(m)
           /\ ~messages[m].booked
           /\ IsTransaction(m)
           /\ messages[m].h.source = "wallet"
           /\ messages[m].h.from # messages[m].h.to)
            => TotalAmount' = TotalAmount]_vars

====
